---- MODULE Spec2Model ----
(***************************************************************************)
(* A model of the newsapi client library (src/src/lib.rs): the             *)
(* configuration builder NewsAPI, the URL composer prepare_url, the three  *)
(* fetch variants (fetch over ureq, fetch_async over reqwest, fetch_web    *)
(* over reqwasm), the serde decoding of NewsAPIResponse / Article and the  *)
(* error classifier map_response_err.                                      *)
(*                                                                         *)
(* A URL, which is composed and taken apart, is a sequence of             *)
(* one-character strings; an API key, whose bytes decide whether it can be *)
(* sent as a header value, is the sequence of its Unicode code points;     *)
(* text that is only compared (status, code, titles, error messages) is a  *)
(* TLA+ string.  An Option<String> is the empty sequence (None) or a       *)
(* one-element sequence (Some).                                            *)
(***************************************************************************)
EXTENDS Naturals, Sequences, FiniteSets

VARIABLES
    config,    \* the NewsAPI value: api_key, endpoint, country
    log,       \* history: the call of new and the setter calls made since
    pc,        \* position of the fetch call in progress
    variant,   \* which fetch variant is in progress / was last called
    called,    \* history: the config as it was when the fetch was called
    url,       \* local `url`: the result of prepare_url
    request,   \* the GET handed to the transport
    gets,      \* history: number of GETs handed to the transport by this call
    reply,     \* what the network / server answered
    response,  \* local `response`: the decoded NewsAPIResponse
    result,    \* the value the call returns
    seen       \* history: one earlier, completed call (for comparing calls)

vars == <<config, log, pc, variant, called, url, request, gets, reply,
          response, result, seen>>

(***************************************************************************)
(* Bounds of the model.                                                    *)
(***************************************************************************)
MaxArticles == 2
MaxSetters == 4

(***************************************************************************)
(* Text helpers.                                                           *)
(***************************************************************************)
None == <<>>
Some(x) == <<x>>

\* The first position at which pat occurs in s, 0 when it does not occur.
IndexOf(s, pat) ==
    LET hits == {i \in 1..(Len(s) + 1 - Len(pat)) :
                     SubSeq(s, i, i + Len(pat) - 1) = pat}
    IN  IF Len(pat) > Len(s) \/ hits = {} THEN 0
        ELSE CHOOSE i \in hits : \A j \in hits : i <= j

Contains(s, pat) == IndexOf(s, pat) # 0

RECURSIVE Split(_, _)
\* s cut at every occurrence of the character ch.
Split(s, ch) ==
    LET i == IndexOf(s, <<ch>>)
    IN  IF i = 0 THEN <<s>>
        ELSE <<SubSeq(s, 1, i - 1)>> \o Split(SubSeq(s, i + 1, Len(s)), ch)

RECURSIVE JoinPath(_)
\* Every segment preceded by "/".
JoinPath(segs) ==
    IF segs = <<>> THEN <<>>
    ELSE <<"/">> \o Head(segs) \o JoinPath(Tail(segs))

(***************************************************************************)
(* The enumerations and their wire strings.                                *)
(***************************************************************************)
BASE_URL == <<"h","t","t","p","s",":","/","/","n","e","w","s","a","p","i",
              ".","o","r","g","/","v","2">>

Endpoint == {"TopHeadlines"}

Country == {"US", "FR"}

Endpoint_to_string(e) ==
    CASE e = "TopHeadlines" ->
             <<"t","o","p","-","h","e","a","d","l","i","n","e","s">>

Country_to_string(c) ==
    CASE c = "US" -> <<"u","s">>
      [] c = "FR" -> <<"f","r">>

(***************************************************************************)
(* The url crate, as far as prepare_url uses it.  A Url is its scheme,     *)
(* its host, its path segments and its optional query.                     *)
(***************************************************************************)
\* Url::parse: an absolute URL scheme://host[/seg]*[?query]; anything
\* without "://" is the error RelativeUrlWithoutBase.
Url_parse(s) ==
    LET i    == IndexOf(s, <<":","/","/">>)
        rest == SubSeq(s, i + 3, Len(s))
        q    == IndexOf(rest, <<"?">>)
        hier == IF q = 0 THEN rest ELSE SubSeq(rest, 1, q - 1)
        p    == IndexOf(hier, <<"/">>)
    IN  IF i <= 1 \/ hier = <<>> \/ p = 1
        THEN [ok |-> FALSE, err |-> "UrlParsing", val |-> <<>>]
        ELSE [ok |-> TRUE, err |-> "",
              val |-> [scheme |-> SubSeq(s, 1, i - 1),
                       host   |-> IF p = 0 THEN hier ELSE SubSeq(hier, 1, p - 1),
                       path   |-> IF p = 0 THEN <<>>
                                  ELSE Split(SubSeq(hier, p + 1, Len(hier)), "/"),
                       query  |-> IF q = 0 THEN None
                                  ELSE Some(SubSeq(rest, q + 1, Len(rest)))]]

\* PathSegmentsMut::push: the segment is appended after the existing ones;
\* "." and ".." are not segments and are skipped.
Url_push(u, seg) ==
    IF seg \in {<<".">>, <<".",".">>} THEN u
    ELSE [u EXCEPT !.path = Append(u.path, seg)]

\* Url::set_query: the query is replaced, never extended.
Url_set_query(u, q) == [u EXCEPT !.query = q]

\* Url::to_string: the serialisation.
Url_to_string(u) ==
    u.scheme \o <<":","/","/">> \o u.host
      \o (IF u.path = <<>> THEN <<"/">> ELSE JoinPath(u.path))
      \o (IF u.query = None THEN <<>> ELSE <<"?">> \o u.query[1])

(***************************************************************************)
(* NewsAPI: constructor, setters, prepare_url.                             *)
(***************************************************************************)
\* API keys, as code points: "k1", which every transport sends; "k\n2" (a
\* line feed), which none sends; "k\f2" (a form feed), which only the
\* browser sends; "k" U+00E9 (e acute), which ureq refuses; and "k" U+20AC
\* (the euro sign), which only reqwest sends.
ApiKeys ==
    { <<107, 49>>, <<107, 10, 50>>, <<107, 12, 50>>, <<107, 233>>,
      <<107, 8364>> }

\* The printable ASCII characters 32..126 in order, but for the grave accent
\* (96), which a TLA+ string cannot hold.
Printable ==
    <<
      " ","!","\"","#","$","%","&","'","(",")","*","+",",","-",".","/",
      "0","1","2","3","4","5","6","7","8","9",":",";","<","=",">","?",
      "@","A","B","C","D","E","F","G","H","I","J","K","L","M","N","O",
      "P","Q","R","S","T","U","V","W","X","Y","Z","[","\\","]","^","_",
      "a","b","c","d","e","f","g","h","i","j","k","l","m","n","o","p",
      "q","r","s","t","u","v","w","x","y","z","{","|","}","~" >>

\* A key as the text a URL would hold: its printable ASCII characters, and
\* "%" (the start of an escape) for every other code point.
KeyText(key) ==
    [i \in 1..Len(key) |->
       IF key[i] \in 32..95 THEN Printable[key[i] - 31]
       ELSE IF key[i] \in 97..126 THEN Printable[key[i] - 32]
       ELSE "%"]

NewsAPI_new(api_key) ==
    [api_key |-> api_key, endpoint |-> "TopHeadlines", country |-> "US"]

NewsAPI_endpoint(self, e) == [self EXCEPT !.endpoint = e]

\* The country setter, had it dropped its argument.
NewsAPI_country_ignored(self, c) == self

NewsAPI_country(self, c) == [self EXCEPT !.country = c]

\* prepare_url, had it also put the key in the query.
prepare_url_with_key(self) ==
    LET parsed == Url_parse(BASE_URL)
    IN  IF ~parsed.ok THEN parsed
        ELSE [ok |-> TRUE, err |-> "",
              val |-> Url_to_string(
                        Url_set_query(
                          Url_push(parsed.val, Endpoint_to_string(self.endpoint)),
                          Some(<<"c","o","u","n","t","r","y","=">>
                                 \o Country_to_string(self.country)
                                 \o <<"&","a","p","i","K","e","y","=">>
                                 \o KeyText(self.api_key))))]

prepare_url(self) ==
    LET parsed == Url_parse(BASE_URL)
    IN  IF ~parsed.ok THEN parsed
        ELSE [ok |-> TRUE, err |-> "",
              val |-> Url_to_string(
                        Url_set_query(
                          Url_push(parsed.val, Endpoint_to_string(self.endpoint)),
                          Some(<<"c","o","u","n","t","r","y","=">>
                                 \o Country_to_string(self.country))))]

NoUrl == [ok |-> FALSE, err |-> "", val |-> <<>>]

(***************************************************************************)
(* JSON on the wire.  A field of an object is missing, null or a string.   *)
(***************************************************************************)
Missing == [t |-> "missing", s |-> ""]
JNull == [t |-> "null", s |-> ""]
JStr(x) == [t |-> "str", s |-> x]

JArticle(title, u, description) ==
    [title |-> title, url |-> u, description |-> description]

\* Article objects a server may send: complete ones (with a description, with
\* a null one, with none) and ones lacking title or url.
ArticleObjects ==
    { JArticle(JStr("t1"), JStr("u1"), JStr("d1")),
      JArticle(JStr("t2"), JStr("u2"), JNull),
      JArticle(JStr("t1"), JStr("u2"), Missing),
      JArticle(Missing, JStr("u1"), JStr("d1")),
      JArticle(JStr("t1"), Missing, JNull) }

SeqsUpTo(S, n) == UNION {[1..k -> S] : k \in 0..n}

NoArticles == [t |-> "missing", a |-> <<>>]
JArray(a) == [t |-> "array", a |-> a]

JObject(status, articles, code) ==
    [t |-> "object", status |-> status, articles |-> articles, code |-> code]

\* A body that cannot be read to its end, and one that is not JSON.
IoErrorBody == [t |-> "io_error", status |-> Missing, articles |-> NoArticles,
                code |-> Missing]
SyntaxErrorBody == [t |-> "syntax_error", status |-> Missing,
                    articles |-> NoArticles, code |-> Missing]

StatusValues == {Missing, JNull, JStr("ok"), JStr("error"), JStr("OK")}
CodeValues == {Missing, JNull, JStr("apiKeyDisabled"), JStr("rateLimited")}
ArticlesValues ==
    {NoArticles} \cup {JArray(a) : a \in SeqsUpTo(ArticleObjects, MaxArticles)}

Bodies ==
    {IoErrorBody, SyntaxErrorBody}
      \cup {JObject(s, a, c) : s \in StatusValues, a \in ArticlesValues,
                               c \in CodeValues}

\* What comes back for a GET: no reply at all (connection failure), or an
\* HTTP status line with a body.
NetworkError == [net |-> "error", http |-> 0, body |-> IoErrorBody]
HttpReply(h, b) == [net |-> "ok", http |-> h, body |-> b]
HttpStatuses == {200, 401, 500}
Replies == {NetworkError} \cup {HttpReply(h, b) : h \in HttpStatuses, b \in Bodies}

\* A small set of replies, for comparing one call with another.
FewBodies ==
    {SyntaxErrorBody}
      \cup {JObject(s, a, c) :
              s \in {JStr("ok"), JStr("error")},
              a \in {NoArticles,
                     JArray(<<JArticle(JStr("t1"), JStr("u1"), JStr("d1"))>>)},
              c \in {Missing, JStr("apiKeyDisabled")}}
FewReplies ==
    {NetworkError} \cup {HttpReply(h, b) : h \in HttpStatuses, b \in FewBodies}

(***************************************************************************)
(* #[derive(Deserialize)]: String fields are required, Option<String>      *)
(* fields are None when missing or null.                                   *)
(***************************************************************************)
DeOk(v) == [ok |-> TRUE, val |-> v]
DeErr == [ok |-> FALSE, val |-> <<>>]

Deserialize_String(j) == IF j.t = "str" THEN DeOk(j.s) ELSE DeErr

Deserialize_Option_String(j) == IF j.t = "str" THEN Some(j.s) ELSE None

Deserialize_Article(j) ==
    LET title == Deserialize_String(j.title)
        u     == Deserialize_String(j.url)
    IN  IF ~title.ok \/ ~u.ok THEN DeErr
        ELSE DeOk([title |-> title.val, url |-> u.val,
                   description |-> Deserialize_Option_String(j.description)])

Deserialize_Vec_Article(j) ==
    IF j.t # "array" THEN DeErr
    ELSE IF \E i \in 1..Len(j.a) : ~Deserialize_Article(j.a[i]).ok THEN DeErr
    ELSE DeOk([i \in 1..Len(j.a) |-> Deserialize_Article(j.a[i]).val])

NoResponse == [status |-> "", articles |-> <<>>, code |-> None]

Deserialize_NewsAPIResponse(body) ==
    LET status   == Deserialize_String(body.status)
        articles == Deserialize_Vec_Article(body.articles)
    IN  IF body.t # "object" \/ ~status.ok \/ ~articles.ok THEN DeErr
        ELSE DeOk([status |-> status.val, articles |-> articles.val,
                   code |-> Deserialize_Option_String(body.code)])

(***************************************************************************)
(* Results: Result<NewsAPIResponse, NewsAPIError>.                         *)
(***************************************************************************)
Ok(resp) == [tag |-> "Ok", kind |-> "", msg |-> "", val |-> resp]
Err(kind, msg) == [tag |-> "Err", kind |-> kind, msg |-> msg, val |-> NoResponse]
NoResult == [tag |-> "None", kind |-> "", msg |-> "", val |-> NoResponse]

\* map_response_err, had it no arm for "apiKeyDisabled".
map_response_err_ignoring_code(code) == Err("BadRequest", "Unknown error")

map_response_err(code) ==
    IF code # None
    THEN CASE code[1] = "apiKeyDisabled" ->
                Err("BadRequest", "Your API key has been disabled")
           [] OTHER -> Err("BadRequest", "Unknown error")
    ELSE Err("BadRequest", "Unknown error")

(***************************************************************************)
(* The transports, as far as the fetch variants use them.                  *)
(***************************************************************************)
\* The bytes of a Rust String: the UTF-8 encoding of its code points.
Utf8(cp) ==
    IF cp < 128 THEN <<cp>>
    ELSE IF cp < 2048 THEN <<192 + (cp \div 64), 128 + (cp % 64)>>
    ELSE IF cp < 65536
    THEN <<224 + (cp \div 4096), 128 + ((cp \div 64) % 64), 128 + (cp % 64)>>
    ELSE <<240 + (cp \div 262144), 128 + ((cp \div 4096) % 64),
           128 + ((cp \div 64) % 64), 128 + (cp % 64)>>

RECURSIVE Bytes(_)
Bytes(v) == IF v = <<>> THEN <<>> ELSE Utf8(Head(v)) \o Bytes(Tail(v))

\* ureq (Request::set, checked by Request::call): every byte of a header
\* value must be TAB, space or a visible ASCII character.
UreqHeaderValueValid(v) ==
    \A i \in 1..Len(Bytes(v)) :
       Bytes(v)[i] = 9 \/ Bytes(v)[i] \in 32..126

\* reqwest (RequestBuilder::header, reported by build), through
\* http::HeaderValue: every byte must be TAB or at least 32, and not DEL.
HeaderValueValid(v) ==
    \A i \in 1..Len(Bytes(v)) :
       Bytes(v)[i] = 9 \/ (Bytes(v)[i] >= 32 /\ Bytes(v)[i] # 127)

RECURSIVE HttpTrimLeft(_)
HttpTrimLeft(v) ==
    IF v # <<>> /\ Head(v) \in {9, 10, 13, 32}
    THEN HttpTrimLeft(Tail(v)) ELSE v

RECURSIVE HttpTrimRight(_)
HttpTrimRight(v) ==
    IF v # <<>> /\ v[Len(v)] \in {9, 10, 13, 32}
    THEN HttpTrimRight(SubSeq(v, 1, Len(v) - 1)) ELSE v

\* The browser's Headers (under reqwasm's Request::header) takes the value
\* as a ByteString, one byte per code point, which fails for a code point
\* above 255; it strips leading and trailing TAB, LF, CR and space and then
\* refuses a value that holds NUL, LF or CR.
BrowserHeaderValue(v) == HttpTrimRight(HttpTrimLeft(v))

BrowserHeaderValueValid(v) ==
    /\ \A i \in 1..Len(v) : v[i] <= 255
    /\ \A i \in 1..Len(BrowserHeaderValue(v)) :
         BrowserHeaderValue(v)[i] \notin {0, 10, 13}

\* ureq: Request::call is an Err for a connection failure and for every
\* HTTP status from 400 on (ureq::Error::Status); Response::into_json is an
\* io::Error both when the body cannot be read and when serde rejects it.
ureq_call(r) ==
    IF r.net = "error" \/ r.http >= 400 THEN Err("RequestFailed", "")
    ELSE Ok(NoResponse)

ureq_into_json(body) ==
    LET d == Deserialize_NewsAPIResponse(body)
    IN  IF ~d.ok THEN Err("FailedResponseToString", "") ELSE Ok(d.val)

\* reqwest: Client::execute is an Err for a connection failure only, the
\* HTTP status is not looked at; Response::json is a reqwest::Error.
reqwest_execute(r) ==
    IF r.net = "error" THEN Err("AsyncRequestFailed", "") ELSE Ok(NoResponse)

\* json(), had its failure been reported as ArticleParseFail.
reqwest_json_parse_fail(body) ==
    LET d == Deserialize_NewsAPIResponse(body)
    IN  IF ~d.ok THEN Err("ArticleParseFail", "") ELSE Ok(d.val)

reqwest_json(body) ==
    LET d == Deserialize_NewsAPIResponse(body)
    IN  IF ~d.ok THEN Err("AsyncRequestFailed", "") ELSE Ok(d.val)

\* reqwasm: Request::send is an Err for a failed fetch only.
reqwasm_send(r) ==
    IF r.net = "error" THEN Err("BadRequest", "failed sending request")
    ELSE Ok(NoResponse)

reqwasm_json(body) ==
    LET d == Deserialize_NewsAPIResponse(body)
    IN  IF ~d.ok THEN Err("BadRequest", "failed converting response to json")
        ELSE Ok(d.val)

(***************************************************************************)
(* The three fetch variants, statement by statement.                       *)
(***************************************************************************)
Variants == {"fetch", "fetch_async", "fetch_web"}

NoRequest == [method |-> "", url |-> <<>>, header |-> <<"", <<>>>>]
NoReply == [net |-> "none", http |-> 0, body |-> IoErrorBody]
NoSeen == [variant |-> "none", called |-> NewsAPI_new(<<>>),
           request |-> NoRequest, gets |-> 0, reply |-> NoReply,
           result |-> NoResult]

\* The GET each variant hands to its transport.
fetch_request(self, u) ==
    [method |-> "GET", url |-> u,
     header |-> <<"Authorization", Bytes(self.api_key)>>]

fetch_async_request(self, u) ==
    [method |-> "GET", url |-> u,
     header |-> <<"Authorization", Bytes(self.api_key)>>]

fetch_web_request(self, u) ==
    [method |-> "GET", url |-> u,
     header |-> <<"Authorization", BrowserHeaderValue(self.api_key)>>]

BuildRequest(v, self, u) ==
    CASE v = "fetch" -> fetch_request(self, u)
      [] v = "fetch_async" -> fetch_async_request(self, u)
      [] v = "fetch_web" -> fetch_web_request(self, u)

\* The failure of a request that cannot be sent: call()? in fetch,
\* build().map_err(..)? in fetch_async.  (fetch_web has no such error, see
\* Send.)
BuildError(v) ==
    CASE v = "fetch" -> Err("RequestFailed", "")
      [] v = "fetch_async" -> Err("AsyncRequestFailed", "")

\* call()? / execute(request).await? / send().await.map_err(..)?
Execute(v, r) ==
    CASE v = "fetch" -> ureq_call(r)
      [] v = "fetch_async" -> reqwest_execute(r)
      [] v = "fetch_web" -> reqwasm_send(r)

\* into_json()? / json().await.map_err(..)? / json().await.map_err(..)?
Decode(v, body) ==
    CASE v = "fetch" -> ureq_into_json(body)
      [] v = "fetch_async" -> reqwest_json(body)
      [] v = "fetch_web" -> reqwasm_json(body)

\* The match of fetch, had every status been taken as success.
fetch_match_any_status(resp) == Ok(resp)

\* match response.status.as_str() { "ok" => Ok(response), _ => Err(..) }
fetch_match(resp) ==
    IF resp.status = "ok" THEN Ok(resp) ELSE map_response_err(resp.code)

fetch_async_match(resp) ==
    IF resp.status = "ok" THEN Ok(resp) ELSE map_response_err(resp.code)

fetch_web_match(resp) ==
    IF resp.status = "ok" THEN Ok(resp) ELSE map_response_err(resp.code)

Match(v, resp) ==
    CASE v = "fetch" -> fetch_match(resp)
      [] v = "fetch_async" -> fetch_async_match(resp)
      [] v = "fetch_web" -> fetch_web_match(resp)

(***************************************************************************)
(* Actions.  The setters take &mut self and a fetch holds &self until it   *)
(* returns, so a setter runs only between calls.                           *)
(***************************************************************************)
locals == <<pc, variant, called, url, request, gets, reply, response, result>>

Init ==
    /\ \E k \in ApiKeys : config = NewsAPI_new(k) /\ log = <<<<"new", k>>>>
    /\ pc = "idle"
    /\ variant = "none"
    /\ called = config
    /\ url = NoUrl
    /\ request = NoRequest
    /\ gets = 0
    /\ reply = NoReply
    /\ response = NoResponse
    /\ result = NoResult
    /\ seen = NoSeen

New(k) ==
    /\ pc = "idle"
    /\ config' = NewsAPI_new(k)
    /\ log' = <<<<"new", k>>>>
    /\ UNCHANGED <<locals, seen>>

SetEndpoint(e) ==
    /\ pc = "idle"
    /\ config' = NewsAPI_endpoint(config, e)
    /\ UNCHANGED <<locals, seen>>

SetCountry(c) ==
    /\ pc = "idle"
    /\ config' = NewsAPI_country(config, c)
    /\ UNCHANGED <<locals, seen>>

\* prepare_url called on its own.
PrepareUrlAlone ==
    /\ pc = "idle"
    /\ url' = prepare_url(config)
    /\ called' = config
    /\ UNCHANGED <<config, log, pc, variant, request, gets, reply, response,
                   result, seen>>

\* A caller enters one of the fetch variants.
Call(v) ==
    /\ pc = "idle"
    /\ pc' = "called"
    /\ variant' = v
    /\ called' = config
    /\ url' = NoUrl
    /\ request' = NoRequest
    /\ gets' = 0
    /\ reply' = NoReply
    /\ response' = NoResponse
    /\ result' = NoResult
    /\ UNCHANGED <<config, log, seen>>

\* let url = self.prepare_url()?;
PrepareUrl ==
    /\ pc = "called"
    /\ url' = prepare_url(config)
    /\ IF url'.ok
       THEN pc' = "prepared" /\ result' = result
       ELSE pc' = "done" /\ result' = Err(url'.err, "")
    /\ UNCHANGED <<config, log, variant, called, request, gets, reply,
                   response, seen>>

\* Whether the transport of variant v takes the key as a header value.
Sendable(v, key) ==
    CASE v = "fetch" -> UreqHeaderValueValid(key)
      [] v = "fetch_async" -> HeaderValueValid(key)
      [] v = "fetch_web" -> BrowserHeaderValueValid(key)

\* The request is built and handed to the transport.  A header value the
\* transport refuses is an Err in fetch and fetch_async; in fetch_web,
\* Request::header returns Self, not a Result, and throws: the call ends
\* there and returns nothing.
Send ==
    /\ pc = "prepared"
    /\ IF Sendable(variant, config.api_key)
       THEN /\ request' = BuildRequest(variant, config, url.val)
            /\ gets' = gets + 1
            /\ pc' = "sent"
            /\ result' = result
       ELSE IF variant = "fetch_web"
       THEN /\ pc' = "panicked"
            /\ UNCHANGED <<request, gets, result>>
       ELSE /\ result' = BuildError(variant)
            /\ pc' = "done"
            /\ UNCHANGED <<request, gets>>
    /\ UNCHANGED <<config, log, variant, called, url, reply, response, seen>>

\* fetch_async makes its client with reqwest::Client::new(), which panics
\* when the TLS backend or the system resolver cannot be set up: whether it
\* does is the environment's choice.  The call ends there, before any
\* request is built, and returns nothing.
ClientNewPanics ==
    /\ pc = "prepared"
    /\ variant = "fetch_async"
    /\ pc' = "panicked"
    /\ UNCHANGED <<config, log, variant, called, url, request, gets, reply,
                   response, result, seen>>

\* The network and the server answer, with one of the replies of S.
Respond(S) ==
    /\ pc = "sent"
    /\ \E r \in S : reply' = r
    /\ pc' = "received"
    /\ UNCHANGED <<config, log, variant, called, url, request, gets, response,
                   result, seen>>

\* The transport call returns.
Executed ==
    /\ pc = "received"
    /\ LET e == Execute(variant, reply)
       IN  IF e.tag = "Err"
           THEN pc' = "done" /\ result' = e
           ELSE pc' = "executed" /\ result' = result
    /\ UNCHANGED <<config, log, variant, called, url, request, gets, reply,
                   response, seen>>

\* The body is read and decoded.
Decoded ==
    /\ pc = "executed"
    /\ LET d == Decode(variant, reply.body)
       IN  IF d.tag = "Err"
           THEN pc' = "done" /\ result' = d /\ response' = response
           ELSE pc' = "decoded" /\ result' = result /\ response' = d.val
    /\ UNCHANGED <<config, log, variant, called, url, request, gets, reply,
                   seen>>

\* The match step, had it put the config back to its defaults.
Matched_resetting_config ==
    /\ pc = "decoded"
    /\ result' = Match(variant, response)
    /\ pc' = "done"
    /\ config' = NewsAPI_new(config.api_key)
    /\ UNCHANGED <<log, variant, called, url, request, gets, reply,
                   response, seen>>

\* The match on response.status.
Matched ==
    /\ pc = "decoded"
    /\ result' = Match(variant, response)
    /\ pc' = "done"
    /\ UNCHANGED <<config, log, variant, called, url, request, gets, reply,
                   response, seen>>

\* The call returns its result to the caller and its locals are dropped.
Return ==
    /\ pc = "done"
    /\ pc' = "idle"
    /\ variant' = "none"
    /\ url' = NoUrl
    /\ request' = NoRequest
    /\ gets' = 0
    /\ reply' = NoReply
    /\ response' = NoResponse
    /\ result' = NoResult
    /\ UNCHANGED <<config, log, called>>

\* A call that panicked unwinds: its locals are dropped, it has given no
\* result, and the config, which it only borrowed, can be used again.
Unwind ==
    /\ pc = "panicked"
    /\ pc' = "idle"
    /\ variant' = "none"
    /\ url' = NoUrl
    /\ request' = NoRequest
    /\ gets' = 0
    /\ reply' = NoReply
    /\ response' = NoResponse
    /\ result' = NoResult
    /\ UNCHANGED <<config, log, called, seen>>

ThisCall ==
    [variant |-> variant, called |-> called, request |-> request,
     gets |-> gets, reply |-> reply, result |-> result]

(***************************************************************************)
(* Specifications.                                                         *)
(***************************************************************************)
\* Calls of the three variants against every reply of Replies.
Next ==
    \/ \E e \in Endpoint : SetEndpoint(e) /\ UNCHANGED log
    \/ \E c \in Country : SetCountry(c) /\ UNCHANGED log
    \/ \E v \in Variants : Call(v)
    \/ PrepareUrl
    \/ Send
    \/ ClientNewPanics
    \/ Respond(Replies)
    \/ Executed
    \/ Decoded
    \/ Matched
    \/ Return /\ UNCHANGED seen
    \/ Unwind

Spec == Init /\ [][Next]_vars

\* The builder: new, the setters (logged) and prepare_url.
NextBuilder ==
    \/ \E k \in ApiKeys : New(k)
    \/ \E e \in Endpoint :
         /\ Len(log) <= MaxSetters
         /\ SetEndpoint(e)
         /\ log' = Append(log, <<"endpoint", e>>)
    \/ \E c \in Country :
         /\ Len(log) <= MaxSetters
         /\ SetCountry(c)
         /\ log' = Append(log, <<"country", c>>)
    \/ PrepareUrlAlone

SpecBuilder == Init /\ [][NextBuilder]_vars

\* Calls compared with one earlier call, which is remembered when it returns.
NextHistory ==
    \/ \E c \in Country : SetCountry(c) /\ UNCHANGED log
    \/ \E v \in Variants : Call(v)
    \/ PrepareUrl
    \/ Send
    \/ ClientNewPanics
    \/ Respond(FewReplies)
    \/ Executed
    \/ Decoded
    \/ Matched
    \/ Return /\ UNCHANGED seen
    \/ Return /\ seen' = ThisCall
    \/ Unwind

SpecHistory == Init /\ [][NextHistory]_vars

(***************************************************************************)
(* Properties.                                                             *)
(***************************************************************************)
UrlTopHeadlinesUs ==
    <<"h","t","t","p","s",":","/","/","n","e","w","s","a","p","i",".","o","r",
      "g","/","v","2","/","t","o","p","-","h","e","a","d","l","i","n","e","s",
      "?","c","o","u","n","t","r","y","=","u","s">>

UrlTopHeadlinesFr ==
    <<"h","t","t","p","s",":","/","/","n","e","w","s","a","p","i",".","o","r",
      "g","/","v","2","/","t","o","p","-","h","e","a","d","l","i","n","e","s",
      "?","c","o","u","n","t","r","y","=","f","r">>

ExpectedUrl(e, c) ==
    CASE e = "TopHeadlines" /\ c = "US" -> UrlTopHeadlinesUs
      [] e = "TopHeadlines" /\ c = "FR" -> UrlTopHeadlinesFr

RECURSIVE LastSet(_, _, _)
\* The value of the last call of setter `field` in the log l, d when there
\* is none.
LastSet(l, field, d) ==
    IF l = <<>> THEN d
    ELSE IF l[Len(l)][1] = field THEN l[Len(l)][2]
    ELSE LastSet(SubSeq(l, 1, Len(l) - 1), field, d)

\* The wire body is an object that lacks status, articles, or the title or
\* the url of an article.
LacksRequiredField(body) ==
    /\ body.t = "object"
    /\ \/ body.status = Missing
       \/ body.articles = NoArticles
       \/ \E i \in 1..Len(body.articles.a) :
            body.articles.a[i].title = Missing \/ body.articles.a[i].url = Missing

\* The wire body is an object with a string status, an array of articles
\* each with a string title and url, and anything as code and descriptions.
WireDecodable(body) ==
    /\ body.t = "object"
    /\ body.status.t = "str"
    /\ body.articles.t = "array"
    /\ \A i \in 1..Len(body.articles.a) :
         body.articles.a[i].title.t = "str" /\ body.articles.a[i].url.t = "str"

\* The record resp holds what the wire body holds, article by article.
SameAsWire(resp, body) ==
    /\ resp.status = body.status.s
    /\ resp.code = (IF body.code.t = "str" THEN <<body.code.s>> ELSE <<>>)
    /\ Len(resp.articles) = Len(body.articles.a)
    /\ \A i \in 1..Len(resp.articles) :
         /\ resp.articles[i].title = body.articles.a[i].title.s
         /\ resp.articles[i].url = body.articles.a[i].url.s
         /\ resp.articles[i].description =
              (IF body.articles.a[i].description.t = "str"
               THEN <<body.articles.a[i].description.s>> ELSE <<>>)

\* C1: prepare_url on a config holding endpoint E and country C returns Ok
\* with exactly https://newsapi.org/v2/<E-string>?country=<C-string>; the
\* query holds the single parameter country, and the URL holds no api_key.
C1_PrepareUrlShape ==
    url # NoUrl =>
      /\ url.ok
      /\ url.val = ExpectedUrl(called.endpoint, called.country)
      /\ Len(Split(url.val, "?")) = 2
      /\ Len(Split(Split(url.val, "?")[2], "&")) = 1
      /\ SubSeq(Split(url.val, "?")[2], 1, 8)
           = <<"c","o","u","n","t","r","y","=">>
      /\ ~Contains(url.val, KeyText(called.api_key))

C1_Witness ==
    /\ url.ok
    /\ called.country = "FR"
    /\ called.api_key = <<107, 49>>
    /\ url.val = UrlTopHeadlinesFr

\* C2: after new(key) and any sequence of setter calls the config holds the
\* last endpoint set (top-headlines if none), the last country set (US if
\* none) and the key given to new; with no setter called the composed URL
\* is https://newsapi.org/v2/top-headlines?country=us.
C2_BuilderHoldsLastSet ==
    /\ log[1][1] = "new"
    /\ config.api_key = log[1][2]
    /\ config.endpoint = LastSet(Tail(log), "endpoint", "TopHeadlines")
    /\ config.country = LastSet(Tail(log), "country", "US")
    /\ (Len(log) = 1 /\ url # NoUrl /\ called = config)
         => url.ok /\ url.val = UrlTopHeadlinesUs

C2_Witness ==
    /\ Len(log) = 4
    /\ log[2] = <<"country", "FR">>
    /\ log[3] = <<"endpoint", "TopHeadlines">>
    /\ log[4] = <<"country", "US">>
    /\ config.country = "US"
    /\ config.api_key = <<107, 49>>

\* C3: for every decoded response the call returns success exactly when the
\* status on the wire is the string "ok", whatever the code is, and the
\* response returned is the decoded one: same status, same articles in the
\* same order with the same title, url and description (a null or absent
\* description being None).
C3_OkIffStatusOk ==
    (pc = "done" /\ response # NoResponse) =>
      /\ (result.tag = "Ok") <=> (reply.body.status = JStr("ok"))
      /\ SameAsWire(response, reply.body)
      /\ result.tag = "Ok" => result.val = response

C3_Witness ==
    /\ pc = "done"
    /\ result.tag = "Ok"
    /\ reply.body.code = JStr("apiKeyDisabled")
    /\ Len(result.val.articles) = 2
    /\ result.val.articles[1].description = <<"d1">>
    /\ result.val.articles[2].description = <<>>
    /\ result.val.articles[2].title = "t2"

\* C4: for every decoded response whose status is not "ok" the result is a
\* BadRequest whose reason is decided by code alone: "apiKeyDisabled" gives
\* the API-key-disabled message, an absent, null or other code gives
\* "Unknown error".
C4_BadRequestByCode ==
    (pc = "done" /\ response # NoResponse /\ reply.body.status # JStr("ok")) =>
      /\ result.tag = "Err"
      /\ result.kind = "BadRequest"
      /\ result.msg = (IF reply.body.code = JStr("apiKeyDisabled")
                       THEN "Your API key has been disabled"
                       ELSE "Unknown error")

C4_Witness ==
    /\ pc = "done"
    /\ response # NoResponse
    /\ reply.body.status = JStr("error")
    /\ reply.body.code = JStr("apiKeyDisabled")
    /\ result.msg = "Your API key has been disabled"

\* C5: for the same config and the same server reply two fetch variants
\* send the same request (URL and Authorization header) and, when the body
\* decodes, whatever the HTTP status, return the same result.
C5_VariantsAgree ==
    (/\ pc = "done"
     /\ seen.variant \in Variants
     /\ seen.called = called
     /\ seen.reply = reply) =>
      /\ (seen.gets = 1 /\ gets = 1) => seen.request = request
      /\ (reply.net = "ok" /\ WireDecodable(reply.body)) => seen.result = result

\* C6: in the blocking fetch a connection failure gives RequestFailed, an
\* unreadable body gives FailedResponseToString, and a readable body that
\* is not valid JSON for NewsAPIResponse gives ArticleParseFail.
C6_BlockingErrorKinds ==
    (pc = "done" /\ variant = "fetch" /\ gets = 1) =>
      /\ reply.net = "error" => result.kind = "RequestFailed"
      /\ (reply.net = "ok" /\ reply.http = 200 /\ reply.body.t = "io_error")
           => result.kind = "FailedResponseToString"
      /\ (/\ reply.net = "ok"
          /\ reply.http = 200
          /\ reply.body.t # "io_error"
          /\ ~WireDecodable(reply.body))
           => result.kind = "ArticleParseFail"

\* C7: in every fetch variant a reply whose JSON lacks a required field ends
\* in that variant's decode failure, never in success, and no response is
\* decoded for the status match or map_response_err to look at.
C7_MissingFieldIsDecodeFailure ==
    (pc = "done" /\ gets = 1 /\ reply.net = "ok"
       /\ LacksRequiredField(reply.body)) =>
      /\ result.tag = "Err"
      /\ response = NoResponse
      /\ CASE variant = "fetch" ->
                result.kind \in {"FailedResponseToString", "ArticleParseFail"}
           [] variant = "fetch_async" -> result.kind = "AsyncRequestFailed"
           [] variant = "fetch_web" ->
                /\ result.kind = "BadRequest"
                /\ result.msg = "failed converting response to json"

\* C8: in fetch_async every failure to build or execute the request and
\* every failure to decode the body is AsyncRequestFailed; the only other
\* failures are UrlParsing from prepare_url and BadRequest from a decoded
\* response whose status is not "ok".
C8_AsyncErrorKinds ==
    (pc = "done" /\ variant = "fetch_async") =>
      /\ result.tag \in {"Ok", "Err"}
      /\ result.tag = "Err" =>
           result.kind \in {"AsyncRequestFailed", "UrlParsing", "BadRequest"}
      /\ (url.ok /\ gets = 0) => result.kind = "AsyncRequestFailed"
      /\ (gets = 1 /\ reply.net = "error") => result.kind = "AsyncRequestFailed"
      /\ (gets = 1 /\ reply.net = "ok" /\ ~WireDecodable(reply.body))
           => result.kind = "AsyncRequestFailed"
      /\ result.kind = "UrlParsing" => ~url.ok
      /\ result.kind = "BadRequest" =>
           /\ response # NoResponse
           /\ response.status # "ok"
           /\ result = map_response_err(response.code)

C8_Witness ==
    /\ pc = "done"
    /\ variant = "fetch_async"
    /\ gets = 1
    /\ reply.net = "ok"
    /\ LacksRequiredField(reply.body)
    /\ reply.body.status = JStr("ok")
    /\ result.kind = "AsyncRequestFailed"

\* C9: a call hands at most one GET to the transport (none when prepare_url
\* fails), has no result before it ends and always ends with exactly one,
\* Ok or Err, and returns success only for a reply that arrived, decoded
\* and has status "ok": a failure is never turned into a success.
C9_OneGetOneOutcome ==
    /\ gets <= 1
    /\ (pc \in {"prepared", "sent", "received", "executed", "decoded"})
         => url.ok
    /\ (pc = "done" /\ ~url.ok) => gets = 0 /\ result.kind = "UrlParsing"
    /\ (pc \in {"called", "prepared", "sent", "received", "executed",
                "decoded"}) => result = NoResult
    /\ pc = "done" => result.tag \in {"Ok", "Err"}
    /\ pc # "panicked"
    /\ (pc = "done" /\ result.tag = "Ok") =>
         /\ gets = 1
         /\ reply.net = "ok"
         /\ WireDecodable(reply.body)
         /\ reply.body.status = JStr("ok")
         /\ SameAsWire(result.val, reply.body)
    /\ (pc = "done" /\ (gets = 0 \/ reply.net = "error"
                          \/ ~WireDecodable(reply.body)
                          \/ reply.body.status # JStr("ok")))
         => result.tag = "Err"

\* C10: a fetch leaves the config as it was when the call began, and its
\* request and result are those of any earlier call of the same variant
\* with the same config and the same reply, whatever came in between.
C10_StatelessDeterministic ==
    /\ pc # "idle" => config = called
    /\ (/\ pc = "done"
        /\ seen.variant = variant
        /\ seen.called = called
        /\ seen.reply = reply) =>
         /\ seen.result = result
         /\ seen.request = request
         /\ seen.gets = gets

C10_Witness ==
    /\ pc = "done"
    /\ seen.variant = variant
    /\ seen.called = called
    /\ seen.reply = reply
    /\ called.country = "FR"
    /\ reply.net = "ok"
    /\ result.kind = "BadRequest"
    /\ seen.result = result

====
